---- MODULE Spec2Model ----
(***************************************************************************)
(* The upbit exchange adapter of src/js/upbit.js as a state machine.       *)
(*                                                                         *)
(* One adapter instance serves one call at a time.  A call is one of the   *)
(* five public operations of the first class of the file (lines 13-281):   *)
(* fetchOrderBook, fetchBalance, fetchMyTrades, createOrder, cancelOrder.  *)
(* Every request the operation makes runs through the same pipeline:       *)
(*   sign -> transport -> handleErrors (raw body) -> request (decoded)     *)
(* and then resumes the operation after its await.                         *)
(*                                                                         *)
(* The file holds three revisions of the class.  The operations modelled   *)
(* are those of the first revision; the variable "variant" selects which   *)
(* revision of sign() the instance uses: "bearer" (lines 205-237) or       *)
(* "hmac" (lines 352-377).                                                 *)
(*                                                                         *)
(* JavaScript values are modelled as tagged records so that undefined,     *)
(* NaN, numbers and strings stay distinct:                                 *)
(*   [t |-> "undefined"], [t |-> "NaN"], [t |-> "number", n |-> 5],        *)
(*   [t |-> "string", n |-> 5]   a string holding the decimal text of 5,   *)
(*   [t |-> "text"]              a string that is not a number ("abc").    *)
(***************************************************************************)
EXTENDS Integers, Sequences, FiniteSets, TLC

VARIABLES
    variant,     \* which sign() revision the instance uses
    apiKey,      \* this.apiKey, or Absent
    secret,      \* this.secret, or Absent
    pc,          \* position of the call in flight
    call,        \* the operation called and its arguments
    req,         \* the request handed to request(): path, api, method, params
    envelope,    \* what sign() returned: url, method, body, headers
    sent,        \* the envelopes handed to the transport, in order
    credChecks,  \* how often checkRequiredCredentials ran in this call
    tokens,      \* how many tokens / HMAC digests were computed in this call
    resp,        \* the raw vendor response handleErrors is given
    classified,  \* the error the classifier threw ("none": it threw nothing)
    results,     \* the decoded responses fetch2 returned, in order
    outcome      \* how the call ended: returned a value, or raised an error

vars == <<variant, apiKey, secret, pc, call, req, envelope, sent, credChecks,
          tokens, resp, classified, results, outcome>>

----------------------------------------------------------------------------
(* Bounds of the model.                                                    *)

\* Records in the two order-list responses of one fetchMyTrades call, together.
MaxTrades == 2
\* Entries in the accounts response.
MaxAccounts == 2
\* Units in the order-book snapshot.
MaxUnits == 1
\* Largest order amount a caller asks for.
MaxAmount == 2
\* The wall clock's reading (epoch milliseconds), later than every creation
\* time the vendor reports.
Now == 3

----------------------------------------------------------------------------
(* JavaScript values.                                                      *)

Undef == [t |-> "undefined", n |-> 0]
NaN == [t |-> "NaN", n |-> 0]
Num(n) == [t |-> "number", n |-> n]
NumStr(n) == [t |-> "string", n |-> n]
Text == [t |-> "text", n |-> 0]

\* A missing credential, argument or object key.
Absent == "<absent>"

\* JavaScript truthiness of a value.
Truthy(v) ==
    CASE v.t = "number" -> v.n # 0
      [] v.t = "string" -> TRUE
      [] v.t = "text" -> TRUE
      [] OTHER -> FALSE

\* a || b
Or(a, b) == IF Truthy(a) THEN a ELSE b

\* a * b on numbers; undefined or NaN operands give NaN.
Mul(a, b) == IF a.t = "number" /\ b.t = "number" THEN Num(a.n * b.n) ELSE NaN

\* a + b on numbers; undefined or NaN operands give NaN.
Add(a, b) == IF a.t = "number" /\ b.t = "number" THEN Num(a.n + b.n) ELSE NaN

\* a - b on numbers; undefined or NaN operands give NaN.
Sub(a, b) == IF a.t = "number" /\ b.t = "number" THEN Num(a.n - b.n) ELSE NaN

\* parseFloat(v): a number or a numeric string parses, anything else is NaN.
ParseFloat(v) ==
    CASE v.t = "number" -> Num(v.n)
      [] v.t = "string" -> Num(v.n)
      [] OTHER -> NaN

\* Exchange.safeFloat(object, key) applied to the value found under the key:
\* a number is returned, a numeric string is parsed, a missing key gives
\* undefined.
SafeFloat(v) ==
    CASE v.t = "number" -> Num(v.n)
      [] v.t = "string" -> Num(v.n)
      [] OTHER -> Undef

\* Exchange.extend(a, b): the keys of both objects, b's values winning.
Extend(a, b) ==
    [k \in (DOMAIN a) \cup (DOMAIN b) |-> IF k \in DOMAIN b THEN b[k] ELSE a[k]]

\* The empty object {}.
EmptyObj == [k \in {} |-> Absent]

----------------------------------------------------------------------------
(* Symbols.  A symbol is the sequence of its characters; NoSymbol stands   *)
(* for an argument that was not given (undefined).                         *)

NoSymbol == <<"<undefined>">>

Symbols ==
    { <<"B", "/", "K">>,            \* BASE/QUOTE
      <<"B", "K">>,                 \* no separator
      <<"B", "/", "K", "/", "E">>,  \* two separators
      <<"/", "K">> }                \* an empty part

\* The index of the first "/" in s, or 0.
RECURSIVE FirstSlash(_, _)
FirstSlash(s, i) ==
    IF i > Len(s) THEN 0
    ELSE IF s[i] = "/" THEN i
    ELSE FirstSlash(s, i + 1)

\* s.split('/'): the parts between the separators; always at least one part.
RECURSIVE Split(_)
Split(s) ==
    LET i == FirstSlash(s, 1) IN
    IF i = 0 THEN <<s>>
    ELSE <<SubSeq(s, 1, i - 1)>> \o Split(SubSeq(s, i + 1, Len(s)))

\* A symbol of exactly two non-empty parts joined by exactly one '/'.
WellFormed(s) ==
    /\ s # NoSymbol
    /\ Len(Split(s)) = 2
    /\ Split(s)[1] # <<>>
    /\ Split(s)[2] # <<>>

\* String concatenation of a part that may be undefined: undefined prints
\* as the text "undefined".
PartText(parts, i) == IF i <= Len(parts) THEN parts[i] ELSE <<"undefined">>

\* normalizeSymbol: BTC/KRW -> KRW-BTC.
normalizeSymbol(symbol) ==
    LET symbols == Split(symbol) IN
    PartText(symbols, 2) \o <<"-">> \o PartText(symbols, 1)

----------------------------------------------------------------------------
(* Vendor data.  A decoded JSON document is an object (with or without a   *)
(* status key, with or without a uuid) or an array of records.             *)

StatusAbsent == [t |-> "absent", v |-> ""]
StatusNull == [t |-> "null", v |-> ""]
StatusString(v) == [t |-> "string", v |-> v]
StatusNumber(v) == [t |-> "number", v |-> v]

Obj(status, uuid) ==
    [kind |-> "object", status |-> status, uuid |-> uuid, items |-> <<>>]

Arr(items) ==
    [kind |-> "array", status |-> StatusAbsent, uuid |-> Absent, items |-> items]

\* All sequences over S of length at most n.
SeqsUpTo(S, n) == UNION {[1..k -> S] : k \in 0..n}

\* The status values a vendor document may carry under its status key.
Statuses ==
    { StatusNull, StatusString("0000"), StatusString("5100"),
      StatusString("9999"), StatusNumber("5100") }

\* A vendor order record, as GET orders lists them; the vendor sends its
\* numbers as strings.
Txn(uuid, side, avg_price, created_at) ==
    [uuid |-> uuid, side |-> side, executed_volume |-> NumStr(2),
     avg_price |-> avg_price, price |-> NumStr(3), paid_fee |-> NumStr(1),
     created_at |-> Num(created_at)]

\* The order records of the model: every side and every shape of avg_price
\* (missing, zero, non-zero), and records that share an identifier, share a
\* creation time, or share neither.
Txns ==
    {Txn("u1", side, avg_price, 1) :
        side \in {"ask", "bid"}, avg_price \in {Undef, NumStr(0), NumStr(5)}}
    \cup
    { Txn("u1", "ask", NumStr(5), 2), Txn("u2", "ask", NumStr(5), 1) }

\* Vendor account records, as GET accounts lists them.
Accounts ==
    [ currency : {"BTC", "KRW"},
      balance : {NumStr(1), Text, Undef} ]

\* Vendor order-book units and snapshots.
Units ==
    { [bid_price |-> 100, bid_size |-> 1, ask_price |-> 101, ask_size |-> 2],
      [bid_price |-> 99, bid_size |-> 3, ask_price |-> 102, ask_size |-> 1] }

Snapshots ==
    [ timestamp : {NumStr(7)}, orderbook_units : SeqsUpTo(Units, MaxUnits) ]

\* The documents the vendor may answer a request on a path with: a document
\* with a status key, or the path's own payload.  n bounds the records of an
\* order list.
Documents(path, method, n) ==
    {Obj(s, Absent) : s \in Statuses} \cup
    CASE path = "orderbook" -> {Arr(l) : l \in SeqsUpTo(Snapshots, 1)}
      [] path = "accounts" -> {Arr(l) : l \in SeqsUpTo(Accounts, MaxAccounts)}
      [] path = "orders" /\ method = "GET" -> {Arr(l) : l \in SeqsUpTo(Txns, n)}
      [] OTHER -> {Obj(StatusAbsent, "u1")}

\* The raw responses of the transport: the HTTP code and the body, a
\* compact JSON text whose first character is that of its document.
Bodies(path, method, n) ==
    { [http |-> h,
       lead |-> IF j.kind = "object" THEN "{" ELSE "[",
       json |-> j] :
        h \in {200, 500}, j \in Documents(path, method, n) }

NoResp == [http |-> 0, lead |-> "", json |-> Obj(StatusAbsent, Absent)]

\* JSON.parse (body)
Decode(body) == body.json

----------------------------------------------------------------------------
(* Requests, envelopes and outcomes.                                       *)

NoCall ==
    [op |-> "none", symbol |-> NoSymbol, type |-> Absent, side |-> Absent,
     amount |-> 0, price |-> Undef, params |-> EmptyObj, id |-> Absent]

NoReq == [path |-> "", api |-> "", method |-> "", params |-> EmptyObj]

\* A query string: absent, or this.urlencode (q).
NoQuery == [present |-> FALSE, q |-> EmptyObj]
Urlencode(q) == [present |-> TRUE, q |-> q]

NoHeaders == [scheme |-> "none"]

NoEnvelope ==
    [endpoint |-> "", urlQuery |-> NoQuery, method |-> "", body |-> NoQuery,
     headers |-> NoHeaders]

NoValue == [t |-> "none"]
NoOutcome == [kind |-> "none", error |-> "", value |-> NoValue]
Raised(error) == [kind |-> "raised", error |-> error, value |-> NoValue]
Returned(value) == [kind |-> "returned", error |-> "", value |-> value]

\* A volume as the rational num/den.
Vol(num, den) == [num |-> num, den |-> den]

\* 1 / 1.0015 as the rational FeeNum / FeeDen.
FeeNum == 10000
FeeDen == 10015

\* The caller's inputs.
Types == {"limit", "market"}
Sides == {"buy", "sell", "ask"}
Amounts == 0..MaxAmount
Prices == {Num(1000)}
Ids == {"u1"}

\* The extra params a caller passes to an operation: none, or keys the
\* operation's own request also sets.
TradeParams == {EmptyObj, "state" :> "wait", "state" :> "done"}
OrderParams == {EmptyObj, "side" :> "ask", "volume" :> Vol(5, 1)}
BookParams == {EmptyObj, "markets" :> <<"K", "-", "E">>}
BalanceParams == {EmptyObj, "currency" :> "BTC"}

\* The operations that go through the private API.
RequiresAuth(op) ==
    op \in {"fetchBalance", "fetchMyTrades", "createOrder", "cancelOrder"}

\* The call begins: nothing signed, sent or received yet.
Begin(c) ==
    /\ pc = "idle"
    /\ call' = c
    /\ UNCHANGED <<variant, apiKey, secret, envelope, sent, credChecks,
                   tokens, resp, classified, results>>

\* The operation hands a request to request() and awaits the response.
Await(r) ==
    /\ req' = r
    /\ pc' = "sign"
    /\ outcome' = NoOutcome

\* The call ends with an error thrown to the caller.
Throw(error) ==
    /\ pc' = "done"
    /\ outcome' = Raised(error)

\* The call ends with a value returned to the caller.
Return(value) ==
    /\ pc' = "done"
    /\ outcome' = Returned(value)

----------------------------------------------------------------------------
(* Helpers of the operations.                                              *)

\* params.state, or Absent when params has no state key.
ParamState(params) ==
    IF "state" \in DOMAIN params THEN params["state"] ELSE Absent

\* Whether key a sorts strictly before key b in direction dir.  Keys that
\* are not numbers (undefined) compare equal.
Before(a, b, dir) ==
    /\ a.t = "number"
    /\ b.t = "number"
    /\ IF dir = "desc" THEN a.n > b.n ELSE a.n < b.n

\* p = <<key, item>> put into the sorted pairs behind every pair it does
\* not sort strictly before: the sort is stable.
RECURSIVE InsertStable(_, _, _)
InsertStable(sorted, p, dir) ==
    IF sorted = <<>> THEN <<p>>
    ELSE IF Before(p[1], Head(sorted)[1], dir) THEN <<p>> \o sorted
    ELSE <<Head(sorted)>> \o InsertStable(Tail(sorted), p, dir)

RECURSIVE SortStable(_, _)
SortStable(pairs, dir) ==
    IF pairs = <<>> THEN <<>>
    ELSE InsertStable(SortStable(SubSeq(pairs, 1, Len(pairs) - 1), dir),
                      pairs[Len(pairs)], dir)

\* _.orderBy (list, key, dir), given each item's value under the key.
OrderBy(list, keys, dir) ==
    LET sorted == SortStable([i \in 1..Len(list) |-> <<keys[i], list[i]>>], dir)
    IN [i \in 1..Len(list) |-> sorted[i][2]]

\* Microseconds per millisecond.
MicrosPerMilli == 1000

\* moment (created_at).valueOf (): the time's epoch milliseconds; moment of
\* undefined is the current time.
Moment(created_at) ==
    IF created_at.t = "number" THEN created_at ELSE Num(Now)

\* A document that is not an array, read as an order record: every field
\* the loop reads is missing.
AsTxn(json) ==
    [uuid |-> json.uuid, side |-> Absent, executed_volume |-> Undef,
     avg_price |-> Undef, price |-> Undef, paid_fee |-> Undef,
     created_at |-> Undef]

\* doneTrades.concat (cancelledTrades) for an array doneTrades: the items
\* of an array argument are appended, any other argument is appended whole.
Concat(doneTrades, cancelledTrades) ==
    IF cancelledTrades.kind = "array"
    THEN doneTrades.items \o cancelledTrades.items
    ELSE Append(doneTrades.items, AsTxn(cancelledTrades))

\* The loop's body adding the fee to a sell and subtracting it from a buy.
ParseTradeFeeFlipped(txn, symbol) ==
    LET coinAmount == SafeFloat(txn.executed_volume)
        price == Or(SafeFloat(txn.avg_price), SafeFloat(txn.price))
        fee == SafeFloat(txn.paid_fee)
        totalCost == IF txn.side = "ask"
                     THEN Add(Mul(coinAmount, price), fee)
                     ELSE Sub(Mul(coinAmount, price), fee)
    IN [info |-> txn,
        id |-> txn.uuid,
        timestamp |-> Mul(Moment(txn.created_at), Num(MicrosPerMilli)),
        datetime |-> txn.created_at,
        symbol |-> symbol,
        order |-> txn.uuid,
        type |-> "limit",
        side |-> IF txn.side = "ask" THEN "sell" ELSE "buy",
        takerOrMaker |-> "taker",
        price |-> price,
        amount |-> coinAmount,
        cost |-> totalCost,
        fee |-> [cost |-> fee]]

\* The body of fetchMyTrades' loop: the trade built from one order record.
ParseTrade(txn, symbol) ==
    LET coinAmount == SafeFloat(txn.executed_volume)
        price == Or(SafeFloat(txn.avg_price), SafeFloat(txn.price))
        fee == SafeFloat(txn.paid_fee)
        totalCost == IF txn.side = "ask"
                     THEN Sub(Mul(coinAmount, price), fee)
                     ELSE Add(Mul(coinAmount, price), fee)
    IN [info |-> txn,
        id |-> txn.uuid,
        timestamp |-> Mul(Moment(txn.created_at), Num(MicrosPerMilli)),
        datetime |-> txn.created_at,
        symbol |-> symbol,
        order |-> txn.uuid,
        type |-> "limit",
        side |-> IF txn.side = "ask" THEN "sell" ELSE "buy",
        takerOrMaker |-> "taker",
        price |-> price,
        amount |-> coinAmount,
        cost |-> totalCost,
        fee |-> [cost |-> fee]]

\* The values of an object's keys, as lodash lists them.
Values(json) ==
    (IF json.status.t # "absent" THEN <<json.status>> ELSE <<>>) \o
    (IF json.uuid # Absent THEN <<json.uuid>> ELSE <<>>)

\* The index of the last account of the list with this currency.
LastOf(items, currency) ==
    CHOOSE i \in 1..Len(items) :
        /\ items[i].currency = currency
        /\ \A j \in (i + 1)..Len(items) : items[j].currency # currency

\* fetchBalance's loop: free[coin.currency] = parseFloat (coin.balance).
Free(items) ==
    [c \in {items[i].currency : i \in 1..Len(items)} |->
        ParseFloat(items[LastOf(items, c)].balance)]

----------------------------------------------------------------------------
(* The operations, up to their first await.                                *)

fetchOrderBook(symbol, params) ==
    LET request == "markets" :> normalizeSymbol(symbol) IN
    /\ Begin([NoCall EXCEPT !.op = "fetchOrderBook", !.symbol = symbol,
                            !.params = params])
    /\ Await([path |-> "orderbook", api |-> "public", method |-> "GET",
              params |-> Extend(request, params)])

fetchBalance(params) ==
    /\ Begin([NoCall EXCEPT !.op = "fetchBalance", !.params = params])
    /\ Await([path |-> "accounts", api |-> "private", method |-> "GET",
              params |-> params])

\* The request of one state of the order list.
OrdersRequest(symbol, state) ==
    ("market" :> normalizeSymbol(symbol)) @@ ("state" :> state) @@
    ("order_by" :> "desc")

\* _fetchMyWaitTrades, up to its await: the caller's params are not passed on.
fetchMyWaitTrades(symbol) ==
    Await([path |-> "orders", api |-> "private", method |-> "GET",
           params |-> OrdersRequest(symbol, "wait")])

fetchMyTrades(symbol, params) ==
    /\ Begin([NoCall EXCEPT !.op = "fetchMyTrades", !.symbol = symbol,
                            !.params = params])
    /\ IF symbol = NoSymbol
       THEN Throw("ExchangeError") /\ UNCHANGED req
       ELSE IF ParamState(params) = "wait"
       THEN fetchMyWaitTrades(symbol)
       ELSE Await([path |-> "orders", api |-> "private", method |-> "GET",
                   params |-> Extend(OrdersRequest(symbol, "done"), params)])

\* The vendor's name of the caller's side: the sell side mapped to bid.
VendorSideInverted(side) ==
    IF side = "buy" THEN "ask"
    ELSE IF side = "sell" THEN "bid"
    ELSE side

\* createOrder's side: buy is the vendor's bid, sell its ask, anything else
\* is passed on as it is.
VendorSide(side) ==
    IF side = "buy" THEN "bid"
    ELSE IF side = "sell" THEN "ask"
    ELSE side

\* createOrder's volume: a buy is reduced by the fee factor, since the fee
\* is taken from the balance, not the transaction.
ActualAmount(side, amount) ==
    IF side = "buy" THEN Vol(amount * FeeNum, FeeDen) ELSE Vol(amount, 1)

\* The request of a limit order.
OrderRequest(symbol, side, amount, price, ord_type) ==
    ("market" :> normalizeSymbol(symbol)) @@
    ("side" :> VendorSide(side)) @@
    ("volume" :> ActualAmount(side, amount)) @@
    ("price" :> price) @@ ("ord_type" :> ord_type)

\* The call of createOrder begins.
BeginOrder(symbol, type, side, amount, price, params) ==
    Begin([NoCall EXCEPT !.op = "createOrder", !.symbol = symbol,
                         !.type = type, !.side = side, !.amount = amount,
                         !.price = price, !.params = params])

\* createOrder sending an order of any type.
createOrderAnyType(symbol, type, side, amount, price, params) ==
    /\ BeginOrder(symbol, type, side, amount, price, params)
    /\ Await([path |-> "orders", api |-> "private", method |-> "POST",
              params |-> Extend(OrderRequest(symbol, side, amount, price,
                                             type), params)])

createOrder(symbol, type, side, amount, price, params) ==
    /\ BeginOrder(symbol, type, side, amount, price, params)
    /\ IF type = "limit"
       THEN Await([path |-> "orders", api |-> "private", method |-> "POST",
                   params |-> Extend(OrderRequest(symbol, side, amount, price,
                                                  "limit"), params)])
       ELSE Throw("ExchangeError") /\ UNCHANGED req

cancelOrder(id) ==
    /\ Begin([NoCall EXCEPT !.op = "cancelOrder", !.id = id])
    /\ Await([path |-> "order", api |-> "private", method |-> "DELETE",
              params |-> "uuid" :> id])

CallFetchOrderBook ==
    \E symbol \in Symbols, params \in BookParams :
        fetchOrderBook(symbol, params)

CallFetchBalance ==
    \E params \in BalanceParams : fetchBalance(params)

CallFetchMyTrades ==
    \E symbol \in Symbols \cup {NoSymbol}, params \in TradeParams :
        fetchMyTrades(symbol, params)

CallCreateOrder ==
    \E symbol \in Symbols, type \in Types, side \in Sides,
       amount \in Amounts, price \in Prices, params \in OrderParams :
        createOrder(symbol, type, side, amount, price, params)

CallCancelOrder ==
    \E id \in Ids : cancelOrder(id)

----------------------------------------------------------------------------
(* sign().                                                                 *)

\* this.checkRequiredCredentials () throws when a credential is missing.
CredentialsMissing == apiKey = Absent \/ secret = Absent

\* params !== {}: params is never the object the literal creates.
NotTheLiteral(params) == TRUE

\* The public branch of sign (the same in both revisions): the query goes
\* into the url when it has keys.
SignPublic ==
    LET query == req.params IN
    /\ envelope' = [endpoint |-> req.path,
                    urlQuery |-> IF DOMAIN query # {} THEN Urlencode(query)
                                 ELSE NoQuery,
                    method |-> req.method,
                    body |-> NoQuery,
                    headers |-> NoHeaders]
    /\ pc' = "dispatch"
    /\ UNCHANGED <<credChecks, outcome>>

\* The private branch of sign going on without the credential check.
SignPrivateUnchecked ==
    /\ pc' = "auth"
    /\ UNCHANGED <<credChecks, envelope, outcome>>

\* The private branch of sign, up to the credential check.
SignPrivate ==
    /\ credChecks' = credChecks + 1
    /\ IF CredentialsMissing
       THEN Throw("MissingCredentials")
       ELSE pc' = "auth" /\ UNCHANGED outcome
    /\ UNCHANGED envelope

sign ==
    IF req.api = "public" THEN SignPublic ELSE SignPrivate

\* sign of the bearer-token revision, to its credential check.
SignBearer ==
    /\ pc = "sign"
    /\ variant = "bearer"
    /\ sign
    /\ UNCHANGED <<variant, apiKey, secret, call, req, sent, tokens, resp,
                   classified, results>>

\* sign of the HMAC-digest revision, to its credential check.
SignHmac ==
    /\ pc = "sign"
    /\ variant = "hmac"
    /\ sign
    /\ UNCHANGED <<variant, apiKey, secret, call, req, sent, tokens, resp,
                   classified, results>>

\* The claims the bearer-token revision signs.
BearerPayload(params, body) ==
    LET payload == ("access_key" :> apiKey) @@ ("nonce" :> "milliseconds") IN
    IF NotTheLiteral(params) THEN payload @@ ("query" :> body) ELSE payload

\* The rest of the private branch, bearer-token revision: the token.
AuthBearer ==
    LET query == req.params
        body == Urlencode(Extend(EmptyObj, query))
        payload == BearerPayload(req.params, body)
    IN /\ pc = "auth"
       /\ variant = "bearer"
       /\ tokens' = tokens + 1
       /\ envelope' = [endpoint |-> req.path,
                       urlQuery |-> IF req.method = "GET"
                                    THEN Urlencode(query) ELSE NoQuery,
                       method |-> req.method,
                       body |-> body,
                       headers |-> [scheme |-> "bearer", payload |-> payload,
                                    key |-> secret]]
       /\ pc' = "dispatch"
       /\ UNCHANGED <<variant, apiKey, secret, call, req, sent, credChecks,
                      resp, classified, results, outcome>>

\* The rest of the private branch, HMAC-digest revision: the digest.
AuthHmac ==
    LET query == req.params
        body == Urlencode(Extend("endpoint" :> req.path, query))
        auth == [endpoint |-> req.path, body |-> body,
                 nonce |-> "milliseconds"]
    IN /\ pc = "auth"
       /\ variant = "hmac"
       /\ tokens' = tokens + 1
       /\ envelope' = [endpoint |-> req.path,
                       urlQuery |-> NoQuery,
                       method |-> req.method,
                       body |-> body,
                       headers |-> [scheme |-> "hmac", apiKey |-> apiKey,
                                    signed |-> auth, key |-> secret]]
       /\ pc' = "dispatch"
       /\ UNCHANGED <<variant, apiKey, secret, call, req, sent, credChecks,
                      resp, classified, results, outcome>>

----------------------------------------------------------------------------
(* The transport and the error classification.                             *)

\* The order records the operation has received so far.  (A response that
\* request() rejects ends the call, so at every dispatch the responses in
\* results are those the operation was given.)
Received ==
    LET n(i) == Len(results[i].items) IN
    IF results = <<>> THEN 0
    ELSE IF Len(results) = 1 THEN n(1)
    ELSE n(1) + n(2)

\* fetch: the signed envelope is handed to the transport.
Dispatch ==
    /\ pc = "dispatch"
    /\ sent' = Append(sent, envelope)
    /\ envelope' = NoEnvelope
    /\ pc' = "await"
    /\ UNCHANGED <<variant, apiKey, secret, call, req, credChecks, tokens,
                   resp, classified, results, outcome>>

\* The transport fails (network, timeout, or its own handling of the HTTP
\* code): its error reaches the caller as it is.
TransportFails ==
    /\ pc = "await"
    /\ Throw("NetworkError")
    /\ UNCHANGED <<variant, apiKey, secret, call, req, envelope, sent,
                   credChecks, tokens, resp, classified, results>>

\* The transport delivers the vendor's response.
Respond ==
    /\ pc = "await"
    /\ \E body \in Bodies(req.path, req.method, MaxTrades - Received) :
           resp' = body
    /\ pc' = "handleErrors"
    /\ UNCHANGED <<variant, apiKey, secret, call, req, envelope, sent,
                   credChecks, tokens, classified, results, outcome>>

\* 'status' in response
HasStatus(response) ==
    response.kind = "object" /\ response.status.t # "absent"

\* this.safeString (response, 'status'): the text of a string or a number,
\* undefined (Absent) for null.
SafeString(status) ==
    IF status.t \in {"string", "number"} THEN status.v ELSE Absent

\* describe ().exceptions
exceptions == "5100" :> "ExchangeError"

\* handleErrors without its test for the success code.
handleErrorsNoSuccessCode(httpCode, body) ==
    IF HasStatus(Decode(body)) /\ SafeString(Decode(body).status) # Absent
    THEN "ExchangeError"
    ELSE "none"

\* handleErrors: the error it throws for a raw response, "none" when it
\* returns.  Every body here is a string of two characters or more.
handleErrors(httpCode, body) ==
    IF body.lead = "{" \/ body.lead = "["
    THEN LET response == Decode(body) IN
         IF HasStatus(response)
         THEN LET status == SafeString(response.status) IN
              IF status # Absent
              THEN IF status = "0000" THEN "none"
                   ELSE IF status \in DOMAIN exceptions
                   THEN exceptions[status]
                   ELSE "ExchangeError"
              ELSE "none"
         ELSE "none"
    ELSE "none"

\* The check request() makes on the decoded response: the error it throws,
\* "none" when it returns the response.
requestCheck(response) ==
    IF HasStatus(response)
    THEN IF response.status = StatusString("0000") THEN "none"
         ELSE "ExchangeError"
    ELSE "none"

\* The transport calls handleErrors on the raw body; when it returns, fetch2
\* returns the decoded body to request().
HandleErrors ==
    LET error == handleErrors(resp.http, resp) IN
    /\ pc = "handleErrors"
    /\ IF error # "none"
       THEN /\ Throw(error)
            /\ classified' = error
            /\ UNCHANGED <<resp, results>>
       ELSE /\ results' = Append(results, Decode(resp))
            /\ resp' = NoResp
            /\ pc' = "request"
            /\ UNCHANGED <<classified, outcome>>
    /\ UNCHANGED <<variant, apiKey, secret, call, req, envelope, sent,
                   credChecks, tokens>>

\* request(), after its await of fetch2.
Request ==
    LET response == results[Len(results)]
        error == requestCheck(response)
    IN /\ pc = "request"
       /\ IF error # "none"
          THEN Throw(error) /\ classified' = error
          ELSE pc' = "resume" /\ UNCHANGED <<classified, outcome>>
       /\ UNCHANGED <<variant, apiKey, secret, call, req, envelope, sent,
                      credChecks, tokens, resp, results>>

----------------------------------------------------------------------------
(* The operations, after their awaits.                                     *)

\* What a continuation leaves alone.
Resumed ==
    UNCHANGED <<variant, apiKey, secret, call, envelope, sent, credChecks,
                tokens, resp, classified, results>>

fetchOrderBookResume ==
    LET response == results[1]
        orderbook == response.items[1]
        units == orderbook.orderbook_units
    IN /\ pc = "resume"
       /\ call.op = "fetchOrderBook"
       /\ IF response.kind = "array" /\ response.items # <<>>
          THEN Return([t |-> "orderbook",
                       bids |-> [i \in 1..Len(units) |->
                                   <<units[i].bid_price, units[i].bid_size>>],
                       asks |-> [i \in 1..Len(units) |->
                                   <<units[i].ask_price, units[i].ask_size>>],
                       timestamp |-> ParseFloat(orderbook.timestamp)])
          ELSE Throw("TypeError")
       /\ UNCHANGED req
       /\ Resumed

fetchBalanceResume ==
    LET response == results[1] IN
    /\ pc = "resume"
    /\ call.op = "fetchBalance"
    /\ IF response.kind = "array"
       THEN Return([t |-> "balance", free |-> Free(response.items)])
       ELSE Throw("TypeError")
    /\ UNCHANGED req
    /\ Resumed

\* fetchMyTrades returning the trades of the done list alone.
fetchMyTradesDoneOnly ==
    /\ pc = "resume"
    /\ call.op = "fetchMyTrades"
    /\ ParamState(call.params) # "wait"
    /\ Len(results) = 1
    /\ Return([t |-> "trades",
                list |-> [i \in 1..Len(results[1].items) |->
                            ParseTrade(results[1].items[i], call.symbol)]])
    /\ UNCHANGED <<variant, apiKey, secret, call, req, envelope, sent,
                   credChecks, tokens, resp, classified, results>>

\* fetchMyTrades after the done list arrived: the cancel list is asked for.
fetchMyTradesCancelled ==
    /\ pc = "resume"
    /\ call.op = "fetchMyTrades"
    /\ ParamState(call.params) # "wait"
    /\ Len(results) = 1
    /\ Await([path |-> "orders", api |-> "private", method |-> "GET",
              params |-> Extend(OrdersRequest(call.symbol, "cancel"),
                                call.params)])
    /\ Resumed

\* The trades of the two lists, oldest first.
MergeTradesAscending(doneTrades, cancelledTrades, symbol) ==
    LET txns == Concat(doneTrades, cancelledTrades)
        result == [i \in 1..Len(txns) |-> ParseTrade(txns[i], symbol)]
    IN OrderBy(result, [i \in 1..Len(result) |-> result[i].timestamp], "asc")

\* The trades of the two lists, newest first.
MergeTrades(doneTrades, cancelledTrades, symbol) ==
    LET txns == Concat(doneTrades, cancelledTrades)
        result == [i \in 1..Len(txns) |-> ParseTrade(txns[i], symbol)]
    IN OrderBy(result, [i \in 1..Len(result) |-> result[i].timestamp], "desc")

\* fetchMyTrades after the cancel list arrived: the loop and the sort.
fetchMyTradesMerge ==
    LET doneTrades == results[1]
        cancelledTrades == results[2]
    IN /\ pc = "resume"
       /\ call.op = "fetchMyTrades"
       /\ ParamState(call.params) # "wait"
       /\ Len(results) = 2
       /\ IF doneTrades.kind = "array"
          THEN Return([t |-> "trades",
                       list |-> MergeTrades(doneTrades, cancelledTrades,
                                            call.symbol)])
          ELSE Throw("TypeError")
       /\ UNCHANGED req
       /\ Resumed

\* _fetchMyWaitTrades after its await: the order records carry no
\* timestamp key, so every sort key is undefined.
fetchMyWaitTradesResume ==
    LET waitTrades == IF results[1].kind = "array" THEN results[1].items
                      ELSE Values(results[1])
    IN /\ pc = "resume"
       /\ call.op = "fetchMyTrades"
       /\ ParamState(call.params) = "wait"
       /\ Return([t |-> "orders",
                   list |-> OrderBy(waitTrades,
                                    [i \in 1..Len(waitTrades) |-> Undef],
                                    "asc")])
       /\ UNCHANGED req
       /\ Resumed

createOrderResume ==
    LET response == results[1] IN
    /\ pc = "resume"
    /\ call.op = "createOrder"
    /\ Return([t |-> "order", id |-> response.uuid])
    /\ UNCHANGED req
    /\ Resumed

cancelOrderResume ==
    /\ pc = "resume"
    /\ call.op = "cancelOrder"
    /\ Return([t |-> "ack", response |-> results[1]])
    /\ UNCHANGED req
    /\ Resumed

----------------------------------------------------------------------------
(* The specification.                                                      *)

Init ==
    /\ variant \in {"bearer", "hmac"}
    /\ apiKey \in {"key", Absent}
    /\ secret \in {"secret", Absent}
    /\ pc = "idle"
    /\ call = NoCall
    /\ req = NoReq
    /\ envelope = NoEnvelope
    /\ sent = <<>>
    /\ credChecks = 0
    /\ tokens = 0
    /\ resp = NoResp
    /\ classified = "none"
    /\ results = <<>>
    /\ outcome = NoOutcome

Next ==
    \/ CallFetchOrderBook
    \/ CallFetchBalance
    \/ CallFetchMyTrades
    \/ CallCreateOrder
    \/ CallCancelOrder
    \/ SignBearer
    \/ SignHmac
    \/ AuthBearer
    \/ AuthHmac
    \/ Dispatch
    \/ TransportFails
    \/ Respond
    \/ HandleErrors
    \/ Request
    \/ fetchOrderBookResume
    \/ fetchBalanceResume
    \/ fetchMyTradesCancelled
    \/ fetchMyTradesMerge
    \/ fetchMyWaitTradesResume
    \/ createOrderResume
    \/ cancelOrderResume

Spec == Init /\ [][Next]_vars

----------------------------------------------------------------------------
(* What the claims speak of.                                               *)

\* The parameters an envelope carries: those of its body, or of its url.
SentParams(e) == IF e.body.present THEN e.body.q ELSE e.urlQuery.q

\* The volume v is below / equal to the whole amount.
VolBelow(v, amount) == v.num < amount * v.den
VolEquals(v, amount) == v.num = amount * v.den

\* fetchMyTrades called with no state filter.
NoStateFilter ==
    call.op = "fetchMyTrades" /\ ParamState(call.params) = Absent

----------------------------------------------------------------------------
(* C1: createOrder called with an order type other than 'limit' ends in a  *)
(* raised error without one transport call: nothing was signed (no         *)
(* request built, no credential checked, no token computed) and nothing    *)
(* was sent.                                                               *)
C1_OtherTypeRaisesUnsent ==
    (call.op = "createOrder" /\ call.type # "limit") =>
        /\ pc = "done"
        /\ outcome.kind = "raised"
        /\ req = NoReq
        /\ credChecks = 0
        /\ tokens = 0
        /\ envelope = NoEnvelope
        /\ sent = <<>>

\* A market order was refused.
C1_Witness ==
    /\ call.op = "createOrder"
    /\ call.type = "market"
    /\ outcome = Raised("ExchangeError")

(* C2, as claimed: in every request createOrder dispatches the vendor side *)
(* is 'bid' for the caller's 'buy' and 'ask' for 'sell', the volume is     *)
(* below the requested amount only for 'buy', and for 'sell' it equals     *)
(* the requested amount.                                                   *)
C2_AsClaimed ==
    call.op = "createOrder" =>
        \A i \in 1..Len(sent) :
            LET p == SentParams(sent[i]) IN
            /\ call.side = "buy" => p["side"] = "bid"
            /\ call.side = "sell" => p["side"] = "ask"
            /\ VolBelow(p["volume"], call.amount) => call.side = "buy"
            /\ call.side = "sell" => VolEquals(p["volume"], call.amount)

(* C2, amended: the same, for a caller whose params carry no side key      *)
(* (the side) and no volume key (the volume): params are merged over the   *)
(* request and win.                                                        *)
C2_SideAndVolumeUnlessOverridden ==
    call.op = "createOrder" =>
        \A i \in 1..Len(sent) :
            LET p == SentParams(sent[i]) IN
            /\ "side" \notin DOMAIN call.params =>
                  /\ call.side = "buy" => p["side"] = "bid"
                  /\ call.side = "sell" => p["side"] = "ask"
            /\ "volume" \notin DOMAIN call.params =>
                  /\ VolBelow(p["volume"], call.amount) => call.side = "buy"
                  /\ call.side = "sell" => VolEquals(p["volume"], call.amount)
            /\ "side" \in DOMAIN call.params =>
                  p["side"] = call.params["side"]
            /\ "volume" \in DOMAIN call.params =>
                  p["volume"] = call.params["volume"]

\* A buy was sent as a bid with its volume reduced.
C2_Witness ==
    /\ call.op = "createOrder"
    /\ call.side = "buy"
    /\ call.params = EmptyObj
    /\ Len(sent) = 1
    /\ SentParams(sent[1])["side"] = "bid"
    /\ VolBelow(SentParams(sent[1])["volume"], call.amount)

(* C3: fetchMyTrades with no state filter is all or nothing.  It sends the *)
(* state=done request and then the state=cancel request, nothing else; it  *)
(* returns only when both requests were sent and both responses passed     *)
(* the classifier; and when it raises it returns no trade list.            *)
C3_AllOrNothing ==
    NoStateFilter =>
        /\ Len(sent) <= 2
        /\ Len(sent) >= 1 => SentParams(sent[1])["state"] = "done"
        /\ Len(sent) = 2 => SentParams(sent[2])["state"] = "cancel"
        /\ outcome.kind = "returned" =>
              /\ Len(sent) = 2
              /\ Len(results) = 2
              /\ \A i \in 1..2 : requestCheck(results[i]) = "none"
              /\ classified = "none"
        /\ outcome.kind = "raised" => outcome.value = NoValue
        /\ pc = "done" => outcome.kind \in {"returned", "raised"}

\* The done list arrived with a record in it, the cancel request failed,
\* and the call raised.
C3_Witness ==
    /\ NoStateFilter
    /\ Len(sent) = 2
    /\ Len(results) >= 1
    /\ results[1].items # <<>>
    /\ outcome.kind = "raised"
    /\ outcome.value = NoValue

\* How often x occurs in the sequence.
Count(seq, x) == Cardinality({i \in DOMAIN seq : seq[i] = x})

\* fetchMyTrades, called with no state filter, returned the trades of two
\* order lists.
ReturnedTrades ==
    /\ NoStateFilter
    /\ outcome.kind = "returned"
    /\ results[2].kind = "array"

\* The order records of both sub-results.
BothLists == results[1].items \o results[2].items

\* The returned trades hold exactly the records of both sub-results, each
\* as often as the vendor listed it.
HoldsBothLists(list) ==
    /\ Len(list) = Len(BothLists)
    /\ \A i \in 1..Len(list) :
            Count(BothLists, list[i].info) =
                Cardinality({j \in 1..Len(list) : list[j].info = list[i].info})

BadBalance(v) == v.t \notin {"number", "string"}

(* C5, as claimed: when an entry of the accounts response has a missing or *)
(* non-numeric balance, fetchBalance ends in a MalformedResponse failure   *)
(* and returns no mapping.                                                 *)
C5_AsClaimed ==
    ( /\ call.op = "fetchBalance"
      /\ pc = "done"
      /\ Len(results) = 1
      /\ results[1].kind = "array"
      /\ \E i \in 1..Len(results[1].items) :
             BadBalance(results[1].items[i].balance) )
    => outcome = Raised("MalformedResponse")

(* C6, as claimed: an operation given a symbol that is not two non-empty   *)
(* parts joined by one '/' fails before any transport call: it builds no   *)
(* request from the symbol and sends nothing.                              *)
C6_AsClaimed ==
    ( /\ call.op \in {"fetchOrderBook", "fetchMyTrades", "createOrder"}
      /\ ~WellFormed(call.symbol) )
    => (req = NoReq /\ sent = <<>>)

(* C7, as claimed: on every vendor response the pre-flight check of the    *)
(* raw body (handleErrors) raises exactly when the check of the decoded    *)
(* response (request) raises.                                              *)
C7_AsClaimed ==
    pc = "handleErrors" =>
        ((handleErrors(resp.http, resp) # "none")
            <=> (requestCheck(Decode(resp)) # "none"))

\* The response the classifier saw last.
LastResponse ==
    IF resp # NoResp THEN Decode(resp) ELSE results[Len(results)]

\* The error kind of a status code: the table's, or the generic one.
KindOf(status) ==
    IF status \in DOMAIN exceptions THEN exceptions[status]
    ELSE "ExchangeError"

(* C8: the classifier goes by the status field alone.  A response whose    *)
(* status is "0000" never makes it raise; one whose status is another      *)
(* string always makes it raise, the call ending with the table's kind for *)
(* a mapped code and the generic kind otherwise; one with no status key    *)
(* never makes it raise, whatever the HTTP code.                            *)
C8_StatusDecides ==
    (resp # NoResp \/ results # <<>>) =>
        LET r == LastResponse IN
        /\ r.status = StatusString("0000") => classified = "none"
        /\ ~HasStatus(r) => classified = "none"
        /\ ( /\ r.status.t = "string"
             /\ r.status.v # "0000"
             /\ pc \notin {"handleErrors", "request"} )
           => /\ pc = "done"
              /\ classified = KindOf(r.status.v)
              /\ outcome = Raised(KindOf(r.status.v))

\* A response with the mapped status 5100 made the classifier raise.
C8_Witness ==
    /\ resp # NoResp
    /\ Decode(resp).status = StatusString("5100")
    /\ pc = "done"
    /\ classified = "ExchangeError"

\* A call of an operation that needs authentication.
AuthCall ==
    /\ RequiresAuth(call.op)
    /\ call.op = "createOrder" => call.type = "limit"

(* C9, as claimed: when the access key or the secret is absent, a call of  *)
(* an authenticated operation fails with the missing-credentials error,    *)
(* no token or HMAC computed and nothing sent; fetchOrderBook goes through *)
(* no credential check.                                                    *)
C9_AsClaimed ==
    /\ (AuthCall /\ CredentialsMissing) =>
          /\ tokens = 0
          /\ sent = <<>>
          /\ pc = "done" => outcome = Raised("MissingCredentials")
    /\ call.op = "fetchOrderBook" => credChecks = 0

(* C9, amended: when the access key or the secret is absent, every         *)
(* request an authenticated operation builds fails at signing with the     *)
(* missing-credentials error, the credential check coming before any token *)
(* or HMAC and before any transport call; a call refused for its arguments *)
(* before it builds a request (fetchMyTrades without a symbol) ends with   *)
(* that error instead.  Under both signing variants no token is computed   *)
(* without a credential check before it and no authenticated request is    *)
(* sent without a token; fetchOrderBook goes through no credential check.  *)
C9_CheckedBeforeSigning ==
    /\ (AuthCall /\ CredentialsMissing) =>
          /\ tokens = 0
          /\ envelope = NoEnvelope
          /\ sent = <<>>
          /\ pc = "done" =>
                IF req # NoReq
                THEN outcome = Raised("MissingCredentials") /\ credChecks = 1
                ELSE /\ outcome = Raised("ExchangeError")
                     /\ call.op = "fetchMyTrades"
                     /\ call.symbol = NoSymbol
    /\ tokens <= credChecks
    /\ RequiresAuth(call.op) => Len(sent) <= tokens
    /\ call.op = "fetchOrderBook" => (credChecks = 0 /\ tokens = 0)

\* An authenticated request met missing credentials at signing.
C9_Witness ==
    /\ AuthCall
    /\ CredentialsMissing
    /\ req # NoReq
    /\ credChecks = 1
    /\ outcome = Raised("MissingCredentials")

\* The number a vendor field holds; undefined when the field is missing.
Reading(v) == IF v.t \in {"number", "string"} THEN Num(v.n) ELSE Undef

BearerSent == {i \in 1..Len(sent) : sent[i].headers.scheme = "bearer"}

(* C11, as claimed: under the bearer-token revision the claims signed for  *)
(* an authenticated request hold a query claim exactly when the request    *)
(* carries parameters; fetchBalance with empty params is signed with the   *)
(* access key and the nonce only.                                          *)
C11_AsClaimed ==
    \A i \in BearerSent :
        LET payload == sent[i].headers.payload IN
        /\ ("query" \in DOMAIN payload) <=> (DOMAIN SentParams(sent[i]) # {})
        /\ (call.op = "fetchBalance" /\ call.params = EmptyObj) =>
               DOMAIN payload = {"access_key", "nonce"}

(* C12, as claimed: fetchMyTrades called with a state filter sends at most *)
(* one request, and that request carries the caller's state; two requests  *)
(* are sent only when no state filter is given, and they never carry the   *)
(* same state.                                                             *)
C12_AsClaimed ==
    call.op = "fetchMyTrades" =>
        /\ ~NoStateFilter =>
              /\ Len(sent) <= 1
              /\ \A i \in 1..Len(sent) :
                     SentParams(sent[i])["state"] = ParamState(call.params)
        /\ Len(sent) = 2 =>
              /\ NoStateFilter
              /\ SentParams(sent[1])["state"] # SentParams(sent[2])["state"]

====
